---- MODULE Spec2Model ----
(***************************************************************************)
(* The on-disk OCI layout store of pkg/store (type Layout): AddOCI,         *)
(* AddOCICollection, Flush, Copy, CopyAll and the blob writer writeLayer,   *)
(* over a file system made of <root>/blobs/sha256/<hex>, <root>/index.json  *)
(* and <root>/oci-layout.                                                   *)
(*                                                                         *)
(* Bytes are sequences of small naturals ("chunks").  A digest is the      *)
(* fixed-width rolling hash Hash below, which stands for sha256: it has    *)
(* no collision on the byte strings the model can store (HashInjective).   *)
(* Every call that does I/O or calls into the caller's artifact may fail:  *)
(* a failure is a nondeterministic choice inside the action.  The store is *)
(* built without WithCache (l.cache is nil), one caller uses the instance, *)
(* and the layer tasks of one AddOCI run concurrently.                     *)
(*                                                                         *)
(* SpecDetect is the file getter of pkg/artifact/file/getter: File.Detect  *)
(* over a tree of files.                                                   *)
(***************************************************************************)
EXTENDS Integers, Sequences, FiniteSets, TLC

\* ------------------------------------------------------------------ bounds
\* Top-level calls (AddOCI, AddOCICollection, Flush, Copy, CopyAll, NewLayout,
\* a fresh target) one behaviour makes.
MaxCalls == 2
\* Entries the in-memory index may hold before AddOCI is no longer called.
MaxIndex == 2
\* The calls of a behaviour whose ctx may be cancelled: the first MaxCancel.
MaxCancel == 1

\* ------------------------------------------------------------- bytes, digest
NoErr == ""

Refs == {"r1", "r2"}

OCIManifest == "application/vnd.oci.image.manifest.v1+json"
DockerManifest == "application/vnd.docker.distribution.manifest.v2+json"

RECURSIVE HashFrom(_, _)
HashFrom(h, s) ==
    IF s = <<>> THEN h
    ELSE HashFrom((h * 31 + Head(s)) % 65521, Tail(s))

\* digest.FromBytes / v1.Hash.Hex of a byte string.
Hash(s) == HashFrom(7, s)

\* go-containerregistry's static.NewLayer(data, ""): Digest() is computed from
\* the bytes, Compressed() streams them.
StaticLayer(data) == [digest |-> Hash(data), data |-> data]

\* json.Marshal of a v1.Manifest: media type, config digest, layer digests,
\* closing brace (chunk 0).
MediaTypeToken(mt) == IF mt = OCIManifest THEN 1 ELSE 2

TokenMediaType(t) == IF t = 1 THEN OCIManifest ELSE DockerManifest

Marshal(m) ==
    <<MediaTypeToken(m.MediaType), m.Config>> \o m.Layers \o <<0>>

\* json decoding of manifest bytes: a truncated document does not decode.
Decodes(b) ==
    /\ Len(b) >= 3
    /\ b[1] \in {1, 2}
    /\ b[Len(b)] = 0
    /\ \A i \in 2..(Len(b) - 1) : b[i] # 0

Unmarshal(b) ==
    [MediaType |-> TokenMediaType(b[1]),
     Config    |-> b[2],
     Layers    |-> SubSeq(b, 3, Len(b) - 1)]

\* ------------------------------------------------------------------ inputs
\* An artifacts.OCI as the packaging code hands it over: the manifest names
\* the digests of its config and layers.
Image(mt, cfg, layers) ==
    [manifest |-> [MediaType |-> mt,
                   Config    |-> Hash(cfg),
                   Layers    |-> [i \in 1..Len(layers) |-> layers[i].digest]],
     config   |-> cfg,
     layers   |-> layers]

\* A v1.Layer is an interface: Digest() and Compressed() are the caller's.
\* MislabelledLayer reports the digest of <<2>> and streams <<1, 2>>.
MislabelledLayer == [digest |-> Hash(<<2>>), data |-> <<1, 2>>]

\* Two layers of distinct digests; the same layer twice; a mislabelled layer.
Artifacts ==
    { Image(DockerManifest, <<3>>, <<StaticLayer(<<1, 2>>), StaticLayer(<<2>>)>>),
      Image(OCIManifest, <<3>>, <<StaticLayer(<<1, 2>>), StaticLayer(<<1, 2>>)>>),
      Image(OCIManifest, <<3>>, <<MislabelledLayer>>) }

EmptyDescriptor == [MediaType |-> "", Digest |-> 0, Size |-> 0, RefName |-> ""]

\* ------------------------------------------------------------------- state
VARIABLES
    blobsDir,   \* <root>/blobs/sha256 exists
    blobs,      \* the files under it: hex |-> bytes
    indexJson,  \* <root>/index.json: [present, entries]
    ociLayout,  \* <root>/oci-layout exists
    index,      \* the instance's in-memory index (l.OCI), in append order
    phase,      \* where the running AddOCI is: idle, manifest, config, layers
    oci,        \* AddOCI's artifact argument
    ref,        \* AddOCI's ref argument
    mdata,      \* AddOCI's serialized manifest
    tasks,      \* the writeLayer calls of the current phase
    gErr,       \* errgroup's first error: the task that failed first, or 0
    collPc,     \* where the running AddOCICollection is: none, loop, called
    collection, \* what collection.Contents() returned to AddOCICollection
    cnts,       \* the pairs of it not yet added
    descs,      \* the descs slice of AddOCICollection or CopyAll
    walkPc,     \* where the running CopyAll is: none, walk
    walkPos,    \* the index entry Walk visits next
    mapper,     \* CopyAll's toMapper
    target,     \* the target.Target of Copy: [blobs, refs]
    ret,        \* what the last call returned: [op, err, desc, descs]
    nCalls,     \* top-level calls made
    others,     \* the files on disk that are not the layout's, by path
    detected,   \* the file getter's last Detect: [called, u, found]
    cancelled   \* the ctx of the running AddOCI or AddOCICollection is done

disk == <<blobsDir, blobs, indexJson, ociLayout>>
addVars == <<phase, oci, ref, mdata, tasks, gErr>>
collVars == <<collPc, collection, cnts>>
walkVars == <<walkPc, walkPos, mapper>>
vars == <<blobsDir, blobs, indexJson, ociLayout, index, phase, oci, ref, mdata,
          tasks, gErr, collPc, collection, cnts, descs, walkPc, walkPos, mapper, target,
          ret, nCalls, others, detected, cancelled>>

NoFile == [h \in {} |-> <<>>]
NoTarget == [blobs |-> NoFile, refs |-> [r \in {} |-> EmptyDescriptor]]
NoArtifact == Image(OCIManifest, <<>>, <<>>)

Result(op, err, desc, ds) == [op |-> op, err |-> err, desc |-> desc, descs |-> ds]

\* The root directory an earlier run left behind after adding a under r.
StoreOf(a, r) ==
    LET m == Marshal(a.manifest)
        d == [MediaType |-> a.manifest.MediaType, Digest |-> Hash(m),
              Size |-> Len(m), RefName |-> r]
        names == {Hash(m), Hash(a.config)} \cup {a.layers[i].digest : i \in DOMAIN a.layers}
    IN [blobsDir |-> TRUE,
        blobs |-> [h \in names |->
                     IF h = Hash(m) THEN m
                     ELSE IF h = Hash(a.config) THEN a.config
                     ELSE (CHOOSE l \in {a.layers[i] : i \in DOMAIN a.layers} : l.digest = h).data],
        indexJson |-> [present |-> TRUE, entries |-> <<d>>],
        ociLayout |-> TRUE]

\* What else is on disk, by path from the root (".." is the root's parent): a
\* file under blobs/ that is no sha256 blob, files in another directory of the
\* root and at its top, and files beside the root.
OtherFiles ==
    { <<"blobs", "sha512", "f">>, <<"ingest", "f">>, <<"index.json.bak">>,
      <<"..", "blobs">>, <<"..", "store2", "index.json">> }

EmptyString == [abs |-> FALSE, parts |-> <<>>]

NotDetected == [called |-> FALSE, u |-> [Host |-> "", Path |-> EmptyString], found |-> FALSE]

EmptyRoot ==
    [blobsDir |-> FALSE, blobs |-> NoFile,
     indexJson |-> [present |-> FALSE, entries |-> <<>>], ociLayout |-> FALSE]

Roots ==
    { EmptyRoot,
      StoreOf(Image(OCIManifest, <<3>>, <<StaticLayer(<<1, 2>>), StaticLayer(<<1, 2>>)>>), "r1") }

\* NewLayout (lines 92-112) on an empty root directory, or on one that holds a
\* store: the index is loaded from index.json.
InitStore ==
    /\ \E root \in Roots :
          /\ blobsDir = root.blobsDir
          /\ blobs = root.blobs
          /\ indexJson = root.indexJson
          /\ ociLayout = root.ociLayout
          /\ index = root.indexJson.entries
    /\ phase = "idle"
    /\ oci = NoArtifact
    /\ ref = ""
    /\ mdata = <<>>
    /\ tasks = <<>>
    /\ gErr = 0
    /\ collPc = "none"
    /\ collection = [r \in {} |-> NoArtifact]
    /\ cnts = [r \in {} |-> NoArtifact]
    /\ descs = <<>>
    /\ walkPc = "none"
    /\ walkPos = 0
    /\ mapper = [nil |-> TRUE, failOn |-> {}]
    /\ target = NoTarget
    /\ ret = Result("NewLayout", NoErr, EmptyDescriptor, <<>>)
    /\ nCalls = 0
    /\ cancelled = FALSE

Init ==
    /\ InitStore
    /\ others = OtherFiles
    /\ detected = NotDetected

Max(a, b) == IF a > b THEN a ELSE b

\* No call is running on the instance: the caller may make the next one.
Quiet == phase = "idle" /\ collPc = "none" /\ walkPc = "none"

MayCall == Quiet /\ nCalls < MaxCalls

\* --------------------------------------------------------------- writeLayer
\* The Write calls io.Copy makes: the bytes.Reader of a static layer (manifest,
\* config) goes out in one, a caller's layer stream a chunk at a time.
Chunks(layer, kind) ==
    IF kind = "static" THEN <<layer.data>>
    ELSE [i \in 1..Len(layer.data) |-> <<layer.data[i]>>]

NewTask(layer, kind) ==
    [layer |-> layer, kind |-> kind, pc |-> "stat", n |-> 0, off |-> 0]

Terminal(t) == t.pc \in {"written", "skipped", "failed"}

Put(f, k, v) == [x \in DOMAIN f \cup {k} |-> IF x = k THEN v ELSE f[x]]

\* One write(2) of chunk c at file offset off: a gap past the end reads 0.
WriteAt(f, off, c) ==
    [j \in 1..Max(Len(f), off + Len(c)) |->
        IF off < j /\ j <= off + Len(c) THEN c[j - off]
        ELSE IF j <= Len(f) THEN f[j] ELSE 0]

\* TaskFails that keeps the error of the task that failed last.
TaskFailsKeepsLast(i) ==
    /\ tasks' = [tasks EXCEPT ![i].pc = "failed"]
    /\ gErr' = i

\* Lines 159-161: the task returns an error; the group keeps the first one.
TaskFails(i) ==
    /\ tasks' = [tasks EXCEPT ![i].pc = "failed"]
    /\ gErr' = IF gErr = 0 THEN i ELSE gErr

\* StatBlob without the skip of line 315: the file is written again.
StatBlobAlwaysCreates(i) ==
    /\ tasks' = [tasks EXCEPT ![i].pc = "create"]
    /\ UNCHANGED gErr

\* Lines 313-317: the Stat that skips the write when a file of that name is
\* there.
StatBlob(i) ==
    LET t == tasks[i] IN
    IF t.layer.digest \in DOMAIN blobs
    THEN /\ tasks' = [tasks EXCEPT ![i].pc = "skipped"]
         /\ UNCHANGED gErr
    ELSE /\ tasks' = [tasks EXCEPT ![i].pc = "create"]
         /\ UNCHANGED gErr

\* Lines 298-317: Digest(), Compressed(), MkdirAll, then the Stat.
WriteLayerStat(i) ==
    /\ i \in DOMAIN tasks
    /\ tasks[i].pc = "stat"
    /\ \/ /\ tasks[i].kind = "caller"     \* layer.Digest() or Compressed() fails
          /\ TaskFails(i)
          /\ UNCHANGED blobsDir
       \/ /\ ~blobsDir                    \* MkdirAll fails
          /\ TaskFails(i)
          /\ UNCHANGED blobsDir
       \/ /\ blobsDir' = TRUE
          /\ StatBlob(i)
    /\ UNCHANGED <<blobs, indexJson, ociLayout, index, phase, oci, ref, mdata,
                   collVars, descs, walkVars, target, ret, nCalls, others, detected, cancelled>>

\* Lines 319-323: os.Create makes the file or truncates the one there.
WriteLayerCreate(i) ==
    /\ i \in DOMAIN tasks
    /\ tasks[i].pc = "create"
    /\ \/ /\ TaskFails(i)
          /\ UNCHANGED blobs
       \/ /\ blobs' = Put(blobs, tasks[i].layer.digest, <<>>)
          /\ tasks' = [tasks EXCEPT ![i].pc =
                          IF Len(tasks[i].layer.data) = 0 THEN "written" ELSE "copy"]
          /\ UNCHANGED gErr
    /\ UNCHANGED <<blobsDir, indexJson, ociLayout, index, phase, oci, ref, mdata,
                   collVars, descs, walkVars, target, ret, nCalls, others, detected, cancelled>>

\* CopyChunk on a file opened for appending: each Write goes to the end.
CopyChunkAppends(i) ==
    LET t == tasks[i]
        h == t.layer.digest
        cs == Chunks(t.layer, t.kind)
        c == cs[t.n + 1]
    IN /\ blobs' = [blobs EXCEPT ![h] = blobs[h] \o c]
       /\ tasks' = [tasks EXCEPT ![i].n = t.n + 1,
                                 ![i].off = t.off + Len(c),
                                 ![i].pc = IF t.n + 1 = Len(cs) THEN "written" ELSE "copy"]
       /\ UNCHANGED gErr

\* Lines 325-326: io.Copy, one Write a step, at this writer's own offset.
CopyChunk(i) ==
    LET t == tasks[i]
        h == t.layer.digest
        cs == Chunks(t.layer, t.kind)
        c == cs[t.n + 1]
    IN /\ blobs' = [blobs EXCEPT ![h] = WriteAt(blobs[h], t.off, c)]
       /\ tasks' = [tasks EXCEPT ![i].n = t.n + 1,
                                 ![i].off = t.off + Len(c),
                                 ![i].pc = IF t.n + 1 = Len(cs) THEN "written" ELSE "copy"]
       /\ UNCHANGED gErr

WriteLayerCopy(i) ==
    /\ i \in DOMAIN tasks
    /\ tasks[i].pc = "copy"
    /\ \/ /\ TaskFails(i)
          /\ UNCHANGED blobs
       \/ CopyChunk(i)
    /\ UNCHANGED <<blobsDir, indexJson, ociLayout, index, phase, oci, ref, mdata,
                   collVars, descs, walkVars, target, ret, nCalls, others, detected, cancelled>>

\* -------------------------------------------------------------------- index
\* content.OCI.AddIndex: the descriptor is appended to the in-memory index and
\* the index is persisted (index.json, and the oci-layout marker beside it).
AddIndex(desc) ==
    /\ index' = Append(index, desc)
    /\ indexJson' = [present |-> TRUE, entries |-> Append(index, desc)]
    /\ ociLayout' = TRUE

\* content.OCI.LoadIndex: a missing index.json is an empty index.
LoadIndex == IF indexJson.present THEN indexJson.entries ELSE <<>>

\* ------------------------------------------------------------------- AddOCI
AddOCIReturns(err, desc) ==
    /\ phase' = "idle"
    /\ oci' = NoArtifact
    /\ ref' = ""
    /\ mdata' = <<>>
    /\ tasks' = <<>>
    /\ gErr' = 0
    /\ ret' = Result("AddOCI", err, desc, <<>>)
    /\ cancelled' = (cancelled /\ collPc # "none")

\* ManifestDescriptor with the media type written out instead of read from m.
ManifestDescriptorFixedType(m, data, r) ==
    [MediaType |-> OCIManifest, Digest |-> Hash(data), Size |-> Len(data), RefName |-> r]

\* ManifestDescriptor without the reference-name annotation of lines 174-176.
ManifestDescriptorUnnamed(m, data, r) ==
    [MediaType |-> m.MediaType, Digest |-> Hash(data), Size |-> Len(data), RefName |-> ""]

\* Lines 169-178.
ManifestDescriptor(m, data, r) ==
    [MediaType |-> m.MediaType, Digest |-> Hash(data), Size |-> Len(data), RefName |-> r]

\* Lines 119-137, up to the call of writeBlobData(mdata).
CallAddOCI(a, r) ==
    \/ AddOCIReturns("manifest", EmptyDescriptor)            \* oci.Manifest() fails
    \/ AddOCIReturns("marshal manifest", EmptyDescriptor)    \* json.Marshal fails
    \/ /\ oci' = a
       /\ ref' = r
       /\ phase' = "manifest"
       /\ mdata' = Marshal(a.manifest)
       /\ tasks' = <<NewTask(StaticLayer(Marshal(a.manifest)), "static")>>
       /\ gErr' = 0
       /\ UNCHANGED <<ret, cancelled>>

AddOCI(a, r) ==
    /\ MayCall
    /\ Len(index) < MaxIndex
    /\ nCalls' = nCalls + 1
    /\ CallAddOCI(a, r)
    /\ UNCHANGED <<disk, index, collVars, descs, walkVars, target, others, detected>>

\* Lines 135-149: writeBlobData(mdata) has returned; RawConfig, then the call of
\* writeBlobData(cdata).
AddOCIConfig ==
    /\ phase = "manifest"
    /\ Terminal(tasks[1])
    /\ IF tasks[1].pc = "failed"
       THEN AddOCIReturns("write blob data", EmptyDescriptor)
       ELSE \/ AddOCIReturns("raw config", EmptyDescriptor)  \* oci.RawConfig() fails
            \/ /\ phase' = "config"
               /\ tasks' = <<NewTask(StaticLayer(oci.config), "static")>>
               /\ gErr' = 0
               /\ UNCHANGED <<oci, ref, mdata, ret, cancelled>>
    /\ UNCHANGED <<disk, index, collVars, descs, walkVars, target, nCalls, others, detected>>

\* AddOCILayers without the error check of lines 148-150.
AddOCILayersIgnoresError ==
    /\ phase = "config"
    /\ Terminal(tasks[1])
    /\ \/ AddOCIReturns("layers", EmptyDescriptor)
       \/ /\ phase' = "layers"
          /\ tasks' = [i \in 1..Len(oci.layers) |-> NewTask(oci.layers[i], "caller")]
          /\ gErr' = 0
          /\ UNCHANGED <<oci, ref, mdata, ret, cancelled>>
    /\ UNCHANGED <<disk, index, collVars, descs, walkVars, target, nCalls, others, detected>>

\* Lines 147-163: writeBlobData(cdata) has returned; Layers, then one errgroup
\* task a layer.
AddOCILayers ==
    /\ phase = "config"
    /\ Terminal(tasks[1])
    /\ IF tasks[1].pc = "failed"
       THEN AddOCIReturns("write blob data:", EmptyDescriptor)
       ELSE \/ AddOCIReturns("layers", EmptyDescriptor)      \* oci.Layers() fails
            \/ /\ phase' = "layers"
               /\ tasks' = [i \in 1..Len(oci.layers) |-> NewTask(oci.layers[i], "caller")]
               /\ gErr' = 0
               /\ UNCHANGED <<oci, ref, mdata, ret, cancelled>>
    /\ UNCHANGED <<disk, index, collVars, descs, walkVars, target, nCalls, others, detected>>

\* Line 165: the error g.Wait() returned, that of task i, wrapped.
WriteLayersErr(i) == "write layers: " \o (IF i = 1 THEN "layer 1" ELSE "layer 2")

\* WaitDone that returns with the first task to end.
WaitAny == tasks = <<>> \/ \E i \in DOMAIN tasks : Terminal(tasks[i])

\* Line 164: g.Wait() returns once every task of the group has.
WaitDone == \A i \in DOMAIN tasks : Terminal(tasks[i])

\* AddOCIIndex that appends the descriptor whatever g.Wait() returned.
AddOCIIndexIgnoresWait ==
    /\ phase = "layers"
    /\ WaitDone
    /\ AddIndex(ManifestDescriptor(oci.manifest, mdata, ref))
    /\ AddOCIReturns(IF gErr # 0 THEN WriteLayersErr(gErr) ELSE NoErr,
                     IF gErr # 0 THEN EmptyDescriptor
                     ELSE ManifestDescriptor(oci.manifest, mdata, ref))
    /\ UNCHANGED <<blobsDir, blobs, collVars, descs, walkVars, target, nCalls, others, detected>>

\* Lines 164-184: g.Wait() has returned; the descriptor, AddIndex, return.
AddOCIIndex ==
    /\ phase = "layers"
    /\ WaitDone
    /\ IF gErr # 0
       THEN /\ AddOCIReturns(WriteLayersErr(gErr), EmptyDescriptor)
            /\ UNCHANGED <<index, indexJson, ociLayout>>
       ELSE \/ /\ AddOCIReturns("add index", EmptyDescriptor)  \* AddIndex fails
               /\ UNCHANGED <<index, indexJson, ociLayout>>
            \/ /\ AddIndex(ManifestDescriptor(oci.manifest, mdata, ref))
               /\ AddOCIReturns(NoErr, ManifestDescriptor(oci.manifest, mdata, ref))
    /\ UNCHANGED <<blobsDir, blobs, collVars, descs, walkVars, target, nCalls, others, detected>>

\* ---------------------------------------------------------- AddOCICollection
NoContents == [r \in {} |-> NoArtifact]

\* What collection.Contents() may return: a map from reference to artifact.
Collections ==
    { NoContents } \cup [{"r1"} -> Artifacts]
    \cup { c \in [Refs -> Artifacts] : c["r1"] # c["r2"] }

Without(f, k) == [x \in DOMAIN f \ {k} |-> f[x]]

\* Lines 188-194.  Each AddOCI the loop will make counts as a call.
AddOCICollection(c) ==
    /\ Quiet
    /\ nCalls + Max(1, Cardinality(DOMAIN c)) <= MaxCalls
    /\ Len(index) + Cardinality(DOMAIN c) <= MaxIndex
    /\ nCalls' = nCalls + Max(1, Cardinality(DOMAIN c))
    /\ \/ /\ ret' = Result("AddOCICollection", "contents", EmptyDescriptor, <<>>)
          /\ UNCHANGED <<collVars, descs>>
       \/ /\ collPc' = "loop"
          /\ collection' = c
          /\ cnts' = c
          /\ descs' = <<>>
          /\ UNCHANGED ret
    /\ UNCHANGED <<disk, index, addVars, walkVars, target, others, detected, cancelled>>

\* Lines 195-196 and 202: the range over the map, in the order Go picks, and
\* the return after the last pair.
CollectionLoop ==
    /\ collPc = "loop"
    /\ IF DOMAIN cnts = {}
       THEN /\ collPc' = "none"
            /\ ret' = Result("AddOCICollection", NoErr, EmptyDescriptor, descs)
            /\ descs' = <<>>
            /\ cancelled' = FALSE
            /\ UNCHANGED <<collection, cnts, addVars>>
       ELSE \E r \in DOMAIN cnts :
            /\ CallAddOCI(cnts[r], r)
            /\ cnts' = Without(cnts, r)
            /\ collPc' = "called"
            /\ UNCHANGED <<collection, descs>>
    /\ UNCHANGED <<disk, index, walkVars, target, nCalls, others, detected>>

\* CollectionAfter that goes on to the next pair after a failed AddOCI.
CollectionAfterContinues ==
    /\ collPc = "called"
    /\ phase = "idle"
    /\ collPc' = "loop"
    /\ descs' = IF ret.err # NoErr THEN descs ELSE Append(descs, ret.desc)
    /\ UNCHANGED <<cnts, ret, cancelled>>
    /\ UNCHANGED <<disk, index, addVars, collection, walkVars, target, nCalls, others, detected>>

\* CollectionAfter that returns the descriptors gathered so far with the error.
CollectionAfterReturnsPartial ==
    /\ collPc = "called"
    /\ phase = "idle"
    /\ IF ret.err # NoErr
       THEN /\ collPc' = "none"
            /\ cnts' = NoContents
            /\ descs' = <<>>
            /\ ret' = Result("AddOCICollection", ret.err, EmptyDescriptor, descs)
            /\ cancelled' = FALSE
       ELSE /\ collPc' = "loop"
            /\ descs' = Append(descs, ret.desc)
            /\ UNCHANGED <<cnts, ret, cancelled>>
    /\ UNCHANGED <<disk, index, addVars, collection, walkVars, target, nCalls, others, detected>>

\* Lines 197-200: AddOCI has returned.
CollectionAfter ==
    /\ collPc = "called"
    /\ phase = "idle"
    /\ IF ret.err # NoErr
       THEN /\ collPc' = "none"
            /\ cnts' = NoContents
            /\ descs' = <<>>
            /\ ret' = Result("AddOCICollection", ret.err, EmptyDescriptor, <<>>)
            /\ cancelled' = FALSE
       ELSE /\ collPc' = "loop"
            /\ descs' = Append(descs, ret.desc)
            /\ UNCHANGED <<cnts, ret, cancelled>>
    /\ UNCHANGED <<disk, index, addVars, collection, walkVars, target, nCalls, others, detected>>

\* -------------------------------------------------------------------- Flush
\* FlushTo with os.Remove in place of os.RemoveAll: removing a path that is
\* absent is an error too.
FlushToRemove(failed) ==
    LET stop == IF failed = 1 \/ ~blobsDir THEN 1
                ELSE IF failed = 2 \/ ~indexJson.present THEN 2
                ELSE IF failed = 3 \/ ~ociLayout THEN 3 ELSE 0
    IN /\ blobsDir' = IF stop = 1 THEN blobsDir ELSE FALSE
       /\ blobs' = IF stop = 1 THEN blobs ELSE NoFile
       /\ indexJson' = IF stop \in {1, 2} THEN indexJson
                       ELSE [present |-> FALSE, entries |-> <<>>]
       /\ ociLayout' = IF stop \in {1, 2, 3} THEN ociLayout ELSE FALSE
       /\ ret' = Result("Flush", IF stop = 0 THEN NoErr ELSE "remove", EmptyDescriptor, <<>>)

\* Lines 208-225: three RemoveAll in turn; failed = 0 when none fails, else the
\* one that does.  RemoveAll of a path that is absent succeeds.
FlushTo(failed) ==
    /\ blobsDir' = IF failed = 1 THEN blobsDir ELSE FALSE
    /\ blobs' = IF failed = 1 THEN blobs ELSE NoFile
    /\ indexJson' = IF failed \in {1, 2} THEN indexJson
                    ELSE [present |-> FALSE, entries |-> <<>>]
    /\ ociLayout' = IF failed \in {1, 2, 3} THEN ociLayout ELSE FALSE
    /\ ret' = Result("Flush", IF failed = 0 THEN NoErr ELSE "remove", EmptyDescriptor, <<>>)

\* os.RemoveAll(p): p and everything under it goes.
IsUnder(q, p) == Len(q) >= Len(p) /\ SubSeq(q, 1, Len(p)) = p

RemoveAll(fs, p) == {q \in fs : ~IsUnder(q, p)}

\* FlushPaths with the root itself in place of its blobs child.
FlushPathsWholeRoot == <<<<>>, <<"index.json">>, <<"oci-layout">>>>

\* Lines 209, 214, 219: the three paths Flush removes, relative to l.root.
FlushPaths == <<<<"blobs">>, <<"index.json">>, <<"oci-layout">>>>

\* fs after the first k RemoveAll of Flush.
RECURSIVE Removed(_, _)
Removed(fs, k) ==
    IF k = 0 THEN fs ELSE RemoveAll(Removed(fs, k - 1), FlushPaths[k])

Flush ==
    /\ MayCall
    /\ nCalls' = nCalls + 1
    /\ \E failed \in 0..3 :
          /\ FlushTo(failed)
          /\ others' = Removed(others, IF failed = 0 THEN 3 ELSE failed - 1)
    /\ UNCHANGED <<index, addVars, collVars, descs, walkVars, target, detected, cancelled>>

\* ---------------------------------------------------------------- NewLayout
\* Lines 92-112: a fresh instance on the same root takes the place of the old.
NewLayout ==
    /\ MayCall
    /\ nCalls' = nCalls + 1
    /\ \/ /\ indexJson.present            \* LoadIndex fails on an unreadable file
          /\ ret' = Result("NewLayout", "load index", EmptyDescriptor, <<>>)
          /\ UNCHANGED index
       \/ /\ index' = LoadIndex
          /\ ret' = Result("NewLayout", NoErr, EmptyDescriptor, <<>>)
    /\ UNCHANGED <<disk, addVars, collVars, descs, walkVars, target, others, detected, cancelled>>

\* --------------------------------------------------------------------- Copy
\* content.OCI.Resolve: the entry appended last under the name, 0 when none is.
Resolve(name) ==
    LET hits == {i \in DOMAIN index : index[i].RefName = name}
    IN IF hits = {} THEN 0 ELSE CHOOSE i \in hits : \A j \in hits : j <= i

\* The blobs a copy of desc moves, in order: the manifest, then the config and
\* the layers the manifest on disk names.
Graph(desc) ==
    IF desc.Digest \in DOMAIN blobs /\ Decodes(blobs[desc.Digest])
    THEN <<desc.Digest, Unmarshal(blobs[desc.Digest]).Config>>
         \o Unmarshal(blobs[desc.Digest]).Layers
    ELSE <<desc.Digest>>

\* The first blob of ds that content.OCI.Fetch cannot read, Len(ds) + 1 if none.
FirstUnreadable(ds) ==
    LET bad == {j \in DOMAIN ds : ds[j] \notin DOMAIN blobs}
    IN IF bad = {} THEN Len(ds) + 1 ELSE CHOOSE j \in bad : \A k \in bad : j <= k

\* to with the first n blobs of ds pushed.
Pushed(to, ds, n) ==
    [to EXCEPT !.blobs = [h \in DOMAIN to.blobs \cup {ds[j] : j \in 1..n} |->
                             IF h \in {ds[j] : j \in 1..n} THEN blobs[h] ELSE to.blobs[h]]]

\* oras.Copy(ctx, l.OCI, name, to, toName); rejects = 0, or the blob of the
\* graph at which the target rejects the write.  An empty toName is name.
OrasCopy(name, to, toName, rejects) ==
    LET i == Resolve(name)
        desc == index[i]
        ds == Graph(desc)
        stop == IF rejects # 0 /\ rejects < FirstUnreadable(ds)
                THEN rejects ELSE FirstUnreadable(ds)
        tag == IF toName = "" THEN name ELSE toName
    IN IF i = 0
       THEN [err |-> "not found", desc |-> EmptyDescriptor, to |-> to]
       ELSE IF stop <= Len(ds)
       THEN [err |-> IF stop = rejects THEN "push" ELSE "fetch",
             desc |-> EmptyDescriptor, to |-> Pushed(to, ds, stop - 1)]
       ELSE IF ~Decodes(blobs[desc.Digest])
       THEN [err |-> "decode", desc |-> EmptyDescriptor, to |-> Pushed(to, ds, Len(ds))]
       ELSE [err |-> NoErr, desc |-> desc,
             to |-> [blobs |-> Pushed(to, ds, Len(ds)).blobs,
                     refs |-> Put(to.refs, tag, desc)]]

\* CopyResult that returns the zero descriptor on success as well.
CopyResultDropsDescriptor(r) ==
    IF r.err # NoErr
    THEN [err |-> "oras copy: " \o r.err, desc |-> EmptyDescriptor]
    ELSE [err |-> NoErr, desc |-> EmptyDescriptor]

\* Lines 236-241: the error is wrapped and no descriptor returned, else the
\* descriptor oras.Copy returned.
CopyResult(r) ==
    IF r.err # NoErr
    THEN [err |-> "oras copy: " \o r.err, desc |-> EmptyDescriptor]
    ELSE [err |-> NoErr, desc |-> r.desc]

ToRefs == {"ref2"}

MaxGraph == 4

\* Lines 229-242, on the target the caller passes: the one used before or a
\* fresh, empty one.
Copy(name, to, toName, rejects) ==
    /\ MayCall
    /\ nCalls' = nCalls + 1
    /\ LET r == OrasCopy(name, to, toName, rejects)
       IN /\ target' = r.to
          /\ ret' = Result("Copy", CopyResult(r).err, CopyResult(r).desc, <<>>)
    /\ UNCHANGED <<disk, index, addVars, collVars, descs, walkVars, others, detected, cancelled>>

\* ------------------------------------------------------------------ CopyAll
\* A toMapper: nil, or a function that fails on the names in failOn and maps
\* the others.
Mappers ==
    [nil : {TRUE}, failOn : {{}}] \cup [nil : {FALSE}, failOn : SUBSET Refs]

MapRef(name) == IF name = "r1" THEN "t1" ELSE "t2"

\* Lines 245-248: descs is empty and the walk starts at the first entry.
CopyAll(to, m) ==
    /\ MayCall
    /\ nCalls' = nCalls + 1
    /\ walkPc' = "walk"
    /\ walkPos' = 1
    /\ mapper' = m
    /\ descs' = <<>>
    /\ target' = to
    /\ UNCHANGED <<disk, index, addVars, collVars, ret, others, detected, cancelled>>

CopyAllReturns(err, ds) ==
    /\ walkPc' = "none"
    /\ walkPos' = 0
    /\ mapper' = [nil |-> TRUE, failOn |-> {}]
    /\ descs' = <<>>
    /\ ret' = Result("CopyAll", err, EmptyDescriptor, ds)

\* Visit that skips the entry whose name the mapper rejects and walks on.
VisitSkipsOnMapperError(reference, rejects) ==
    IF ~mapper.nil /\ reference \in mapper.failOn
    THEN /\ walkPos' = walkPos + 1
         /\ UNCHANGED <<walkPc, mapper, descs, ret, target>>
    ELSE LET toRef == IF mapper.nil THEN "" ELSE MapRef(reference)
             r == OrasCopy(reference, target, toRef, rejects)
         IN IF CopyResult(r).err # NoErr
            THEN /\ CopyAllReturns("walk: layout copy: " \o CopyResult(r).err, <<>>)
                 /\ target' = r.to
            ELSE /\ descs' = Append(descs, CopyResult(r).desc)
                 /\ walkPos' = walkPos + 1
                 /\ target' = r.to
                 /\ UNCHANGED <<walkPc, mapper, ret>>

\* Lines 248-265: the callback on the entry Walk visits.
Visit(reference, rejects) ==
    IF ~mapper.nil /\ reference \in mapper.failOn
    THEN /\ CopyAllReturns("walk: mapper", <<>>)
         /\ UNCHANGED target
    ELSE LET toRef == IF mapper.nil THEN "" ELSE MapRef(reference)
             r == OrasCopy(reference, target, toRef, rejects)
         IN IF CopyResult(r).err # NoErr
            THEN /\ CopyAllReturns("walk: layout copy: " \o CopyResult(r).err, <<>>)
                 /\ target' = r.to
            ELSE /\ descs' = Append(descs, CopyResult(r).desc)
                 /\ walkPos' = walkPos + 1
                 /\ target' = r.to
                 /\ UNCHANGED <<walkPc, mapper, ret>>

\* content.OCI.Walk over the in-memory index, in index order, and lines 266-269.
WalkStep ==
    /\ walkPc = "walk"
    /\ IF walkPos > Len(index)
       THEN /\ CopyAllReturns(NoErr, descs)
            /\ UNCHANGED target
       ELSE \E rejects \in 0..MaxGraph : Visit(index[walkPos].RefName, rejects)
    /\ UNCHANGED <<disk, index, addVars, collVars, nCalls, others, detected, cancelled>>

\* The ctx the caller gave to AddOCI, or to AddOCICollection, which hands it
\* on (lines 119, 188, 196), becomes done while an AddOCI runs.
Cancel ==
    /\ phase # "idle"
    /\ nCalls <= MaxCancel
    /\ ~cancelled
    /\ cancelled' = TRUE
    /\ UNCHANGED <<disk, index, addVars, collVars, descs, walkVars, target, ret, nCalls,
                   others, detected>>

Next ==
    \/ \E a \in Artifacts, r \in Refs : AddOCI(a, r)
    \/ \E i \in 1..2 : WriteLayerStat(i)
    \/ \E i \in 1..2 : WriteLayerCreate(i)
    \/ \E i \in 1..2 : WriteLayerCopy(i)
    \/ AddOCIConfig
    \/ AddOCILayers
    \/ AddOCIIndex
    \/ \E c \in Collections : AddOCICollection(c)
    \/ CollectionLoop
    \/ CollectionAfter
    \/ Flush
    \/ NewLayout
    \/ \E name \in Refs, to \in {target, NoTarget}, toName \in ToRefs, rejects \in 0..MaxGraph :
          Copy(name, to, toName, rejects)
    \/ \E to \in {target, NoTarget}, m \in Mappers : CopyAll(to, m)
    \/ WalkStep
    \/ Cancel

Spec == Init /\ [][Next]_vars

\* ----------------------------------------------------------- the file getter
\* A path string is [abs, parts]: whether it starts with a separator, and its
\* elements.  EmptyString is the string of length 0; "." is <<".">>.
MaxParts == 3

Names == {"work", "gettertests", "file.yaml", ".", ".."}

Hosts == {"", "my.cool.website", "gettertests"}

RECURSIVE SeqsUpTo(_, _)
SeqsUpTo(S, n) ==
    IF n = 0 THEN {<<>>}
    ELSE SeqsUpTo(S, n - 1) \cup {Append(q, x) : q \in SeqsUpTo(S, n - 1), x \in S}

\* The url.URL values Detect is called with.
URLs ==
    [Host : Hosts,
     Path : [abs : BOOLEAN, parts : SeqsUpTo(Names, MaxParts)]]

\* filepath.Clean, element by element: "." goes, ".." takes the element before
\* it, goes at the root and stays at the head of a relative path.
RECURSIVE CleanFrom(_, _, _)
CleanFrom(abs, done, rest) ==
    IF rest = <<>> THEN done
    ELSE IF Head(rest) = "." THEN CleanFrom(abs, done, Tail(rest))
    ELSE IF Head(rest) = ".."
    THEN IF done # <<>> /\ done[Len(done)] # ".."
         THEN CleanFrom(abs, SubSeq(done, 1, Len(done) - 1), Tail(rest))
         ELSE IF abs THEN CleanFrom(abs, done, Tail(rest))
         ELSE CleanFrom(abs, Append(done, ".."), Tail(rest))
    ELSE CleanFrom(abs, Append(done, Head(rest)), Tail(rest))

\* A relative path that cleans to nothing is ".".
Clean(p) ==
    LET r == CleanFrom(p.abs, <<>>, p.parts)
    IN [abs |-> p.abs, parts |-> IF r = <<>> /\ ~p.abs THEN <<".">> ELSE r]

\* filepath.Join(host, p): empty elements are ignored, the rest joined with a
\* separator and cleaned; all empty gives the empty string.
Join(host, p) ==
    IF host = "" THEN (IF p = EmptyString THEN EmptyString ELSE Clean(p))
    ELSE Clean([abs |-> FALSE, parts |-> <<host>> \o p.parts])

\* Lines 40-42.
path(u) == Join(u.Host, u.Path)

\* The working directory of the process: the store root.
Cwd == <<"work">>

AbsPath(p) == IF p.abs THEN p.parts ELSE CleanFrom(TRUE, <<>>, Cwd \o p.parts)

\* os.Stat(p): a file, a directory (the root, the working directory and every
\* directory a file is in), or an error for a path that names nothing.
Stat(p) ==
    LET files == {CleanFrom(TRUE, <<>>, Cwd \o q) : q \in others}
        a == AbsPath(p)
    IN IF a \in files THEN "file"
       ELSE IF \E f \in files \cup {Append(Cwd, "")} : Len(a) < Len(f) /\ SubSeq(f, 1, Len(a)) = a
       THEN "dir"
       ELSE "error"

\* Detect without the IsDir test of line 37.
DetectAnyEntry(u) ==
    IF path(u) = EmptyString THEN FALSE
    ELSE Stat(path(u)) # "error"

\* Lines 28-38.
Detect(u) ==
    IF path(u) = EmptyString THEN FALSE
    ELSE IF Stat(path(u)) = "error" THEN FALSE
    ELSE Stat(path(u)) # "dir"

\* One call of Detect on the file system as it is.
DetectCall(u) ==
    /\ ~detected.called
    /\ detected' = [called |-> TRUE, u |-> u, found |-> Detect(u)]
    /\ UNCHANGED <<disk, index, addVars, collVars, descs, walkVars, target, ret, nCalls,
                   others, cancelled>>

\* The files there may be where Detect looks.
FileSystems ==
    SUBSET { <<"gettertests", "file.yaml">>, <<"file.yaml">>, <<"my.cool.website">>,
             <<"..", "file.yaml">> }

InitDetect ==
    /\ InitStore
    /\ others \in FileSystems
    /\ detected = NotDetected

NextDetect == \E u \in URLs : DetectCall(u)

SpecDetect == InitDetect /\ [][NextDetect]_vars

\* ==================================================================== claims
Range(f) == {f[x] : x \in DOMAIN f}

\* A step of a running AddOCI, or the AddOCI that fails in oci.Manifest().
AddOCIStep ==
    phase # "idle" \/ phase' # "idle" \/ (ret' # ret /\ ret'.op = "AddOCI")

\* The step in which AddOCI returns without error.
AddOCISucceeds == phase = "layers" /\ phase' = "idle" /\ ret'.err = NoErr

\* C1: a blob write that finds a file of its digest's name on disk (the bytes
\* were written before) returns success and leaves the blob tree as it is: no
\* second file, the content untouched.  The one write that does not return
\* success there is a caller's layer whose own Digest() or Compressed() fails.
BlobWriteIdempotent ==
    [][\A i \in DOMAIN tasks :
          ( /\ tasks[i].pc = "stat"
            /\ tasks[i].layer.digest \in DOMAIN blobs
            /\ i \in DOMAIN tasks'
            /\ tasks'[i].pc # "stat"
            /\ (tasks[i].kind = "static" \/ tasks'[i].pc # "failed") )
          => (tasks'[i].pc = "skipped" /\ blobs' = blobs /\ blobsDir' = blobsDir)]_vars

\* C1 witness: within one AddOCI one task wrote the layer's bytes and the task
\* of the same bytes, run after it, was skipped, the file holding the bytes.
SecondWriteSkipped ==
    \E i, j \in DOMAIN tasks :
        /\ i # j
        /\ tasks[i].layer = tasks[j].layer
        /\ tasks[i].pc = "written"
        /\ tasks[j].pc = "skipped"
        /\ blobs[tasks[j].layer.digest] = tasks[j].layer.data

\* C2: whenever AddOCI has returned success, every file under blobs/sha256 is
\* named by the digest of the bytes it holds.
BlobNamesAreContentDigests ==
    (phase = "idle" /\ ret.op = "AddOCI" /\ ret.err = NoErr)
        => \A h \in DOMAIN blobs : Hash(blobs[h]) = h

\* C3: the step in which AddOCI succeeds appends one entry, the descriptor it
\* returns: the manifest's media type, digest and size of the serialized
\* manifest (the bytes handed to writeBlobData, a blob of that name on disk),
\* and ref as the reference name.
AddOCIAppendsItsDescriptor ==
    [][ /\ (phase = "manifest" =>
              /\ mdata = Marshal(oci.manifest)
              /\ tasks[1].layer.data = mdata
              /\ tasks[1].layer.digest = Hash(mdata))
        /\ (AddOCISucceeds =>
              /\ index' = Append(index, ret'.desc)
              /\ Len(index') = Len(index) + 1
              /\ ret'.desc.MediaType = oci.manifest.MediaType
              /\ ret'.desc.Digest = Hash(Marshal(oci.manifest))
              /\ ret'.desc.Size = Len(Marshal(oci.manifest))
              /\ ret'.desc.RefName = ref
              /\ ret'.desc.Digest \in DOMAIN blobs') ]_vars

\* C3 witness: AddOCI of the Docker-typed artifact has returned its descriptor,
\* the last entry of the index.
DescriptorAppended ==
    /\ phase = "idle"
    /\ ret.op = "AddOCI"
    /\ ret.err = NoErr
    /\ ret.desc.MediaType = DockerManifest
    /\ index # <<>>
    /\ index[Len(index)] = ret.desc

DistinctLayersOneFileEach ==
    [][( /\ AddOCISucceeds
         /\ \A i, j \in DOMAIN oci.layers :
               i # j => oci.layers[i].digest # oci.layers[j].digest )
        => Cardinality({oci.layers[i].digest : i \in DOMAIN oci.layers}
                           \cap DOMAIN blobs') = Len(oci.layers)]_vars

\* C5 witness: AddOCI of the artifact of two distinct layers has succeeded and
\* both layer files are there, complete.
TwoLayersTwoFiles ==
    /\ phase = "idle"
    /\ ret.op = "AddOCI"
    /\ ret.err = NoErr
    /\ ret.desc.Size = 5
    /\ ret.desc.MediaType = DockerManifest
    /\ {Hash(<<1, 2>>), Hash(<<2>>)} \subseteq DOMAIN blobs
    /\ blobs[Hash(<<1, 2>>)] = <<1, 2>>
    /\ blobs[Hash(<<2>>)] = <<2>>

\* The step in which AddOCICollection gets an error back from AddOCI.
CollectionSeesFailure == collPc = "called" /\ phase = "idle" /\ ret.err # NoErr

\* C6: AddOCICollection handles its pairs one at a time (each is waiting, the
\* one being added, or added); when an AddOCI fails its next step is its
\* return with that error, no AddOCI is called for the pairs left, and the
\* entries of the AddOCI calls that succeeded stay in the index, in memory and
\* in index.json.
CollectionStopsAtFirstFailure ==
    /\ [](collPc # "none" =>
            /\ Cardinality(DOMAIN cnts) + Len(descs)
                 + (IF collPc = "called" THEN 1 ELSE 0) = Cardinality(DOMAIN collection)
            /\ (collPc = "loop" => phase = "idle"))
    /\ [](CollectionSeesFailure =>
            /\ Len(descs) <= Len(index)
            /\ \A k \in 1..Len(descs) : index[Len(index) - Len(descs) + k] = descs[k])
    /\ [][CollectionSeesFailure =>
            /\ collPc' = "none"
            /\ phase' = "idle"
            /\ tasks' = <<>>
            /\ ret'.op = "AddOCICollection"
            /\ ret'.err = ret.err
            /\ index' = index
            /\ indexJson' = indexJson
            /\ blobs' = blobs]_vars

\* C6 witness: the second AddOCI of a collection has failed after the first
\* succeeded, a pair may still be waiting, and the first one's entry is in
\* the index.
SecondOfCollectionFailed ==
    /\ CollectionSeesFailure
    /\ Len(descs) = 1
    /\ index # <<>>
    /\ index[Len(index)] = descs[1]
    /\ indexJson.entries = index

\* C7 as claimed: the error return of AddOCICollection carries the descriptors
\* of the artifacts added before the failure.
CollectionErrorCarriesDescriptors ==
    [][CollectionSeesFailure => ret'.descs = descs]_vars

\* C7 as amended: the error return of AddOCICollection carries no descriptor
\* (those of the artifacts added before are dropped) and the error of the
\* failed AddOCI; the return on full success carries one descriptor a pair,
\* that of the pair's manifest under the pair's reference.
CollectionReturnsNilOnError ==
    [][ /\ (CollectionSeesFailure =>
              /\ ret'.op = "AddOCICollection"
              /\ ret'.err = ret.err
              /\ ret'.descs = <<>>)
        /\ ((collPc = "loop" /\ collPc' = "none") =>
              /\ ret'.op = "AddOCICollection"
              /\ ret'.err = NoErr
              /\ Len(ret'.descs) = Cardinality(DOMAIN collection)
              /\ {d.RefName : d \in Range(ret'.descs)} = DOMAIN collection
              /\ \A d \in Range(ret'.descs) :
                    /\ d.Digest = Hash(Marshal(collection[d.RefName].manifest))
                    /\ d \in Range(index)) ]_vars

\* C7 witness: a collection of two pairs, the only call made on an empty store,
\* has returned an error and no descriptor, one entry being in the index.
CollectionFailedWithOneAdded ==
    /\ Quiet
    /\ ret.op = "AddOCICollection"
    /\ ret.err \notin {NoErr, "contents"}
    /\ ret.descs = <<>>
    /\ Cardinality(DOMAIN collection) = 2
    /\ nCalls = 2
    /\ Len(index) = 1

\* Flush returning without error.
FlushSucceeds == Flush /\ ret'.err = NoErr

\* C8: in every state in which Flush may be called it can return success
\* (an absent blobs tree, index.json or oci-layout is no error); when it
\* does, none of the three is left, and what a fresh store on the root then
\* loads is the empty index, with no blob directory; NewLayout takes its index
\* from index.json, the empty one when the file is absent.
FlushErasesTheLayout ==
    /\ [](MayCall => ENABLED FlushSucceeds)
    /\ [][(ret'.op = "Flush" /\ nCalls' = nCalls + 1 /\ ret'.err = NoErr) =>
            /\ ~blobsDir'
            /\ blobs' = NoFile
            /\ ~indexJson'.present
            /\ ~ociLayout'
            /\ LoadIndex' = <<>>]_vars
    /\ [][(ret'.op = "NewLayout" /\ nCalls' = nCalls + 1 /\ ret'.err = NoErr) =>
            /\ index' = LoadIndex
            /\ (~indexJson.present => index' = <<>>)
            /\ UNCHANGED disk]_vars

\* C8 witness: Flush has succeeded on a store that held blobs and an index
\* (the instance's in-memory index still lists the entry): blobs, index.json
\* and oci-layout are gone and a fresh store on the root loads no entry.
FlushedAStoreWithContent ==
    /\ ret.op = "Flush"
    /\ ret.err = NoErr
    /\ index # <<>>
    /\ ~blobsDir
    /\ blobs = NoFile
    /\ ~indexJson.present
    /\ ~ociLayout
    /\ LoadIndex = <<>>

\* C9: while CopyAll walks, descs holds one descriptor for each entry before
\* the one visited, in index order; when the mapper fails on the entry visited
\* (the k-th) no Copy is made for it or any later one, the target is left as
\* the k-1 copies made it, and CopyAll returns the mapper's error, wrapped,
\* and no descriptor.
CopyAllAbortsAtMapperFailure ==
    /\ [](walkPc = "walk" =>
            /\ Len(descs) = walkPos - 1
            /\ walkPos <= Len(index) + 1
            /\ \A j \in 1..Len(descs) :
                  /\ descs[j] = index[Resolve(index[j].RefName)]
                  /\ (IF mapper.nil THEN index[j].RefName ELSE MapRef(index[j].RefName))
                        \in DOMAIN target.refs)
    /\ [][( /\ walkPc = "walk"
            /\ walkPos <= Len(index)
            /\ ~mapper.nil
            /\ index[walkPos].RefName \in mapper.failOn )
          => /\ walkPc' = "none"
             /\ target' = target
             /\ ret'.op = "CopyAll"
             /\ ret'.err = "walk: mapper"
             /\ ret'.descs = <<>>]_vars

\* C9 witness: CopyAll into a fresh target has returned the mapper's error
\* after one copy: the mapper failed on the second entry, "r2", and the first
\* entry, "r1", is in the target under the name it was mapped to.
MapperFailedOnSecondEntry ==
    /\ Quiet
    /\ ret.op = "CopyAll"
    /\ ret.err = "walk: mapper"
    /\ Len(index) = 2
    /\ index[1].RefName = "r1"
    /\ index[2].RefName = "r2"
    /\ DOMAIN target.refs = {MapRef("r1")}
    /\ target.refs[MapRef("r1")] = index[1]

\* C10: Copy of a reference that is not in the index returns an error and
\* leaves the target alone; a Copy that succeeds returns the descriptor the
\* index holds for the reference (the one AddOCI returned: digest, size and
\* media type), tags it in the target, and the target holds the manifest, the
\* config and every layer the manifest names with the bytes the store's blobs
\* hold; an empty target holds nothing else.
CopyRoundTrip ==
    [][\A name \in Refs, to \in {target, NoTarget}, toName \in ToRefs, rejects \in 0..MaxGraph :
          Copy(name, to, toName, rejects) =>
             /\ (Resolve(name) = 0 =>
                   ret'.err # NoErr /\ ret'.desc = EmptyDescriptor /\ target' = to)
             /\ (ret'.err = NoErr =>
                   /\ Resolve(name) # 0
                   /\ ret'.desc = index[Resolve(name)]
                   /\ target'.refs[toName] = ret'.desc
                   /\ Decodes(blobs[ret'.desc.Digest])
                   /\ LET m == Unmarshal(blobs[ret'.desc.Digest])
                          graph == {ret'.desc.Digest, m.Config} \cup Range(m.Layers)
                      IN /\ \A h \in graph :
                               /\ h \in DOMAIN target'.blobs
                               /\ target'.blobs[h] = blobs[h]
                         /\ (to = NoTarget => DOMAIN target'.blobs = graph))]_vars

\* C10 witness: the artifact of two layers was added under "r2" and copied
\* into an empty target under "ref2": the descriptor returned is the index's,
\* and manifest, config and both layers are in the target.
CopiedToEmptyTarget ==
    /\ ret.op = "Copy"
    /\ ret.err = NoErr
    /\ ret.desc.RefName = "r2"
    /\ ret.desc.MediaType = DockerManifest
    /\ ret.desc \in Range(index)
    /\ target.refs = [n \in {"ref2"} |-> ret.desc]
    /\ Cardinality(DOMAIN target.blobs) = 4
    /\ \A h \in DOMAIN target.blobs : target.blobs[h] = blobs[h]

\* C11: the index is append-only and ordered.  A step of AddOCI changes the
\* index only by appending one entry, every older entry staying at its place,
\* the one of the same reference name too, and a lookup of that name then
\* resolves to the entry just appended; a running CopyAll visits the entries
\* one after the other in that order, and what it copies for the name of the
\* entry visited is the entry appended last under that name.
IndexAppendOnlyLastWins ==
    /\ [][AddOCIStep =>
            \/ index' = index
            \/ /\ AddOCISucceeds
               /\ Len(index') = Len(index) + 1
               /\ \A i \in DOMAIN index : index'[i] = index[i]
               /\ index'[Len(index')].RefName = ref
               /\ \A n \in Refs :
                     Resolve(n)' = IF n = ref THEN Len(index') ELSE Resolve(n)]_vars
    /\ [][(walkPc = "walk" /\ walkPc' = "walk") =>
            /\ index' = index
            /\ walkPos' = walkPos + 1
            /\ descs' = Append(descs, index[Resolve(index[walkPos].RefName)])
            /\ Resolve(index[walkPos].RefName) >= walkPos]_vars
    /\ [][\A name \in Refs, to \in {target, NoTarget}, toName \in ToRefs, rejects \in 0..MaxGraph :
            (Copy(name, to, toName, rejects) /\ ret'.err = NoErr) =>
               /\ ret'.desc.RefName = name
               /\ \A i \in DOMAIN index :
                     index[i].RefName = name => i <= Resolve(name)]_vars

\* C11 witness: two entries of different digests are in the index under one
\* reference name, the older first, and Copy of the name has returned the
\* younger.
CopiedTheLastOfTwoSameName ==
    /\ ret.op = "Copy"
    /\ ret.err = NoErr
    /\ Len(index) = 2
    /\ index[1].RefName = index[2].RefName
    /\ index[1].Digest # index[2].Digest
    /\ ret.desc = index[2]

\* C12: Flush removes nothing but the root's blobs, index.json and oci-layout
\* and what lies under them: every other file under or beside the root that
\* was there before a Flush, successful or failed, is there after it, and no
\* file appears.
FlushLeavesOtherFiles ==
    [][(ret'.op = "Flush" /\ nCalls' = nCalls + 1) =>
          /\ others' \subseteq others
          /\ \A q \in others :
                q[1] \notin {"blobs", "index.json", "oci-layout"} => q \in others']_vars

\* C12 witness: Flush has succeeded on a store that held blobs: the stray file
\* under blobs/ went with the tree, the files elsewhere under the root and
\* beside it are there.
FlushedBesideOtherFiles ==
    /\ ret.op = "Flush"
    /\ ret.err = NoErr
    /\ index # <<>>
    /\ blobs = NoFile
    /\ <<"blobs", "sha512", "f">> \notin others
    /\ {<<"ingest", "f">>, <<"index.json.bak">>, <<"..", "blobs">>} \subseteq others

\* C13: Detect(u) is true exactly when the join of u's host and path is not
\* the empty string and names a file there is (not a directory, not a path
\* that names nothing); so a plain file is detected, and a directory, the
\* host of an http URL that names nothing, and the empty URL are not.
DetectExactlyExistingNonDirectory ==
    detected.called =>
        LET u == detected.u
            joined == IF u.Host = "" THEN u.Path.parts ELSE <<u.Host>> \o u.Path.parts
            reached == CleanFrom(TRUE, <<>>,
                           IF u.Host = "" /\ u.Path.abs THEN joined ELSE Cwd \o joined)
            files == {CleanFrom(TRUE, <<>>, Cwd \o q) : q \in others}
        IN /\ detected.found = (joined # <<>> /\ reached \in files)
           /\ ((u.Host = "" /\ u.Path = [abs |-> FALSE, parts |-> <<"gettertests", "file.yaml">>]
                  /\ <<"gettertests", "file.yaml">> \in others) => detected.found)
           /\ ((u.Host = "" /\ u.Path = [abs |-> FALSE, parts |-> <<"gettertests">>])
                  => ~detected.found)
           /\ ((u.Host = "my.cool.website" /\ u.Path = EmptyString
                  /\ <<"my.cool.website">> \notin others) => ~detected.found)
           /\ ((u.Host = "" /\ u.Path = EmptyString) => ~detected.found)

\* C13 witness: with gettertests/file.yaml on disk, Detect of the URL of host
\* gettertests and path /file.yaml has returned true.
DetectedFileUnderHost ==
    /\ detected.called
    /\ detected.found
    /\ detected.u = [Host |-> "gettertests", Path |-> [abs |-> TRUE, parts |-> <<"file.yaml">>]]
    /\ others = {<<"gettertests", "file.yaml">>}

\* The blob write tasks that ended without error.
AllWritten == \A i \in DOMAIN tasks : tasks[i].pc \in {"written", "skipped"}

\* C14: within AddOCI the config write starts only when the manifest write has
\* ended without error, the layer writes only when the config write has, and
\* the index (in memory and on disk) changes only in the step in which AddOCI
\* returns, with every layer task ended without error and a file on disk for
\* the manifest, the config and every layer: while a write of the call runs,
\* or after one failed, the index is what it was when the call was made.
IndexEntryAfterAllWrites ==
    [][AddOCIStep =>
         /\ (phase # phase' /\ phase' = "config" => phase = "manifest" /\ AllWritten)
         /\ (phase # phase' /\ phase' = "layers" => phase = "config" /\ AllWritten)
         /\ ((index' # index \/ indexJson' # indexJson) =>
               /\ phase = "layers"
               /\ phase' = "idle"
               /\ AllWritten
               /\ gErr = 0
               /\ {Hash(mdata), Hash(oci.config)} \subseteq DOMAIN blobs
               /\ \A i \in DOMAIN oci.layers : oci.layers[i].digest \in DOMAIN blobs
               /\ ret'.err = NoErr)]_vars

\* C14 witness: AddOCI on an empty store has written manifest and config, one
\* layer task has ended and the other is still streaming: no entry is in the
\* index.
LayerWriteRunningIndexEmpty ==
    /\ phase = "layers"
    /\ Len(tasks) = 2
    /\ tasks[1].pc = "written"
    /\ tasks[2].pc = "copy"
    /\ {Hash(mdata), Hash(oci.config)} \subseteq DOMAIN blobs
    /\ index = <<>>
    /\ ~indexJson.present

\* A step of layer task i other than its failure.
TaskProgress(i) ==
    /\ WriteLayerStat(i) \/ WriteLayerCreate(i) \/ WriteLayerCopy(i)
    /\ tasks'[i].pc # "failed"

\* C15: AddOCI returns from the layer writes only when every layer task has
\* ended; a task that has not ended can go on whatever the others did (no
\* failure of one stops another); the group's error is that of the task that
\* failed first, later failures leave it, and it is the error AddOCI returns.
FanInWaitsForAllTasks ==
    /\ [](phase = "layers" =>
            /\ (gErr # 0 <=> \E i \in DOMAIN tasks : tasks[i].pc = "failed")
            /\ (gErr # 0 => gErr \in DOMAIN tasks /\ tasks[gErr].pc = "failed")
            /\ \A i \in DOMAIN tasks : ~Terminal(tasks[i]) => ENABLED TaskProgress(i))
    /\ [][phase = "layers" =>
            /\ (phase' = "idle" => WaitDone)
            /\ (phase' = "layers" /\ gErr # 0 => gErr' = gErr)
            /\ (phase' = "idle" /\ gErr # 0 =>
                  ret'.op = "AddOCI" /\ ret'.err = WriteLayersErr(gErr))]_vars

\* C15 witness: of two layer tasks the second failed first and the first,
\* which went on, failed after it: both have ended and the group's error is
\* the second task's.
BothFailedSecondFirst ==
    /\ phase = "layers"
    /\ Len(tasks) = 2
    /\ tasks[1].pc = "failed"
    /\ tasks[1].n = 1
    /\ tasks[2].pc = "failed"
    /\ tasks[2].n = 0
    /\ gErr = 2

\* C16: a step changes or creates only the blob file named by the digest of
\* the one task that takes it, so writers of different digests touch
\* different paths; and in the first call on the store, as long as nothing
\* has failed, once every task writing a digest has ended (having written,
\* or skipped the write on finding the file), the file of that digest holds
\* the whole payload, whatever the interleaving of stat, create and writes.
CheckThenCreateRaceBenign ==
    /\ [][\A h \in DOMAIN blobs' :
            (h \notin DOMAIN blobs \/ blobs'[h] # blobs[h]) =>
                \E i \in DOMAIN tasks :
                    /\ tasks[i].layer.digest = h
                    /\ tasks'[i] # tasks[i]
                    /\ \A j \in DOMAIN tasks \ {i} : tasks'[j] = tasks[j]]_vars
    /\ []((phase # "idle" /\ nCalls = 1 /\ gErr = 0) =>
            \A i \in DOMAIN tasks :
                (\A j \in DOMAIN tasks :
                    tasks[j].layer.digest = tasks[i].layer.digest => Terminal(tasks[j]))
                => /\ tasks[i].layer.digest \in DOMAIN blobs
                   /\ blobs[tasks[i].layer.digest] = tasks[i].layer.data)

\* C16 witness: two tasks of one digest both found no file, both created it
\* and both streamed the payload to the end, nothing having failed: the file
\* holds the payload.
BothWritersWroteSameDigest ==
    /\ phase = "layers"
    /\ nCalls = 1
    /\ gErr = 0
    /\ Len(tasks) = 2
    /\ tasks[1].layer.digest = tasks[2].layer.digest
    /\ tasks[1].pc = "written"
    /\ tasks[2].pc = "written"
    /\ blobs[tasks[1].layer.digest] = <<1, 2>>

\* C17: once the ctx of a running AddOCI or AddOCICollection is done, the
\* call starts no further blob or layer write (no step takes AddOCI on to its
\* next phase, no AddOCI is called for a next pair), the index gets no
\* entry, and the call returns an error.
CancellationObserved ==
    [][cancelled =>
         /\ (phase' # phase => phase' = "idle")
         /\ index' = index
         /\ (phase' = "idle" /\ phase # "idle" => ret'.err # NoErr)
         /\ (collPc' = "none" /\ collPc # "none" => ret'.err # NoErr)]_vars

\* The manifest blob of descriptor d is among the files b, decodes, and it,
\* the config and every layer it names hold bytes of the digest they are
\* named by.
BlobsIntact(d, b) ==
    /\ d.Digest \in DOMAIN b
    /\ Hash(b[d.Digest]) = d.Digest
    /\ Decodes(b[d.Digest])
    /\ \A h \in {Unmarshal(b[d.Digest]).Config} \cup Range(Unmarshal(b[d.Digest]).Layers) :
          h \in DOMAIN b /\ Hash(b[h]) = h

\* C18: when AddOCI of an artifact whose layers report the digests of their
\* bytes returns success, the manifest, config and layer blobs of the entry it
\* appended are on disk, each complete, its digest the file's name; a partial
\* file an earlier failed write left is not taken for the blob.
IndexEntryBlobsIntact ==
    [][( /\ AddOCISucceeds
         /\ \A i \in DOMAIN oci.layers : Hash(oci.layers[i].data) = oci.layers[i].digest )
        => BlobsIntact(ret'.desc, blobs')]_vars

\* C19: after Flush has returned success the instance shows no entry: its
\* index is empty, so that a walk visits nothing and no reference resolves,
\* and no entry it holds names a manifest blob that is not on disk.
FlushEmptiesVisibleIndex ==
    (Quiet /\ ret.op = "Flush" /\ ret.err = NoErr) =>
        /\ index = <<>>
        /\ \A name \in Refs : Resolve(name) = 0
        /\ \A k \in DOMAIN index : index[k].Digest \in DOMAIN blobs

====
